---------------------------- MODULE Spec2Model ----------------------------
(***************************************************************************)
(* SwitchLingua: the scenario pipeline of core/node_engine.py              *)
(* (generation with retries, four evaluation axes, MCP tools, weighted     *)
(* scoring, accept-or-refine) and the deterministic code-switching ratio   *)
(* calculator of core/cs_ratio_calculator.py.                              *)
(*                                                                         *)
(* Text is a sequence of Unicode code points.  Python floats are modelled  *)
(* as exact rationals <<numerator, denominator>> in lowest terms.          *)
(***************************************************************************)
EXTENDS Integers, Sequences, FiniteSets, TLC

(***************************************************************************)
(* Bounds of the model.                                                    *)
(***************************************************************************)
\* the configured maximum refinement count ranges over 1..MaxRefineLimit
MaxRefineLimit == 4

(***************************************************************************)
(* Exact arithmetic standing for Python's float arithmetic.                *)
(***************************************************************************)
Abs(x) == IF x < 0 THEN -x ELSE x

GCD[a \in Nat, b \in Nat] == IF b = 0 THEN a ELSE GCD[b, a % b]

\* n/d in lowest terms, d > 0
LowestTerms[n \in Int, d \in Nat \ {0}] ==
    LET g == GCD[Abs(n), d] IN <<n \div g, d \div g>>

Rat(n, d) == LowestTerms[n, d]

RInt(n) == <<n, 1>>
RAdd(a, b) == Rat(a[1] * b[2] + b[1] * a[2], a[2] * b[2])
RSub(a, b) == Rat(a[1] * b[2] - b[1] * a[2], a[2] * b[2])
RMul(a, b) == Rat(a[1] * b[1], a[2] * b[2])
RAbs(a) == <<Abs(a[1]), a[2]>>
RLeq(a, b) == a[1] * b[2] <= b[1] * a[2]
RLess(a, b) == a[1] * b[2] < b[1] * a[2]
RMax(a, b) == IF RLeq(a, b) THEN b ELSE a

\* format(x, ".1f"): x in tenths, rounded to nearest, ties to even
FormatTenths(a) ==
    LET n10 == a[1] * 10
        q == n10 \div a[2]
        r2 == 2 * (n10 % a[2])
    IN  IF r2 < a[2] THEN q
        ELSE IF r2 > a[2] THEN q + 1
        ELSE IF q % 2 = 0 THEN q ELSE q + 1

(***************************************************************************)
(* core/cs_ratio_calculator.py                                             *)
(***************************************************************************)
\* str.isalpha() of one character, on the characters the model uses:
\* ASCII and Latin-1 letters, Arabic letters, Cyrillic letters
IsAlpha(c) ==
    \/ c \in 65..90
    \/ c \in 97..122
    \/ c \in (192..255) \ {215, 247}
    \/ c \in 1568..1610
    \/ c \in 1040..1103

\* the characters str.split() splits on: space, tab, line feed
IsSpace(c) == c \in {32, 9, 10}

LANGUAGE_RANGES ==
    [Arabic |-> <<1536, 1791>>,
     Chinese |-> <<19968, 40959>>,
     Hindi |-> <<2304, 2431>>,
     French |-> <<0, 255>>,
     English |-> <<0, 255>>,
     Spanish |-> <<0, 255>>,
     German |-> <<0, 255>>,
     Japanese |-> <<12352, 12447>>,
     Vietnamese |-> <<0, 255>>,
     Bengali |-> <<2432, 2559>>,
     Thai |-> <<3584, 3711>>,
     Korean |-> <<44032, 55215>>,
     Russian |-> <<1024, 1279>>]

get_language_range(language) ==
    IF language \in DOMAIN LANGUAGE_RANGES
    THEN LANGUAGE_RANGES[language]
    ELSE <<0, 255>>

\* instance.split(): the maximal runs of non-whitespace characters
RECURSIVE SplitFrom(_, _, _)
SplitFrom(s, i, cur) ==
    IF i > Len(s)
    THEN IF cur = <<>> THEN <<>> ELSE <<cur>>
    ELSE IF IsSpace(s[i])
         THEN IF cur = <<>>
              THEN SplitFrom(s, i + 1, <<>>)
              ELSE <<cur>> \o SplitFrom(s, i + 1, <<>>)
         ELSE SplitFrom(s, i + 1, Append(cur, s[i]))

Split(s) == SplitFrom(s, 1, <<>>)

\* "".join(c for c in word if c.isalpha())
CleanWord(word) == SelectSeq(word, IsAlpha)

detect_word_language(word, lang1, lang2) ==
    LET clean_word == CleanWord(word)
        r1 == get_language_range(lang1)
        r2 == get_language_range(lang2)
    IN  IF clean_word = <<>> THEN "unknown"
        ELSE LET first_char_code == clean_word[1]
             IN  IF r1[1] <= first_char_code /\ first_char_code <= r1[2]
                 THEN "lang1"
                 ELSE IF r2[1] <= first_char_code /\ first_char_code <= r2[2]
                      THEN "lang2"
                      ELSE "unknown"

\* the words of the first instance only
AllWordsOfFirstInstance(instances) ==
    IF instances = <<>> THEN <<>> ELSE Split(Head(instances))

\* all the words of all the instances, in order
RECURSIVE AllWords(_)
AllWords(instances) ==
    IF instances = <<>> THEN <<>>
    ELSE Split(Head(instances)) \o AllWords(Tail(instances))

CountDetected(instances, lang1, lang2, tag) ==
    LET words == AllWords(instances)
    IN  Cardinality({i \in 1..Len(words) :
                        detect_word_language(words[i], lang1, lang2) = tag})

\* the formatted ratio with the first language in front
compute_cs_ratio_matrix_first(instances, first_language, second_language) ==
    LET lang1_count == CountDetected(instances, first_language, second_language, "lang1")
        lang2_count == CountDetected(instances, first_language, second_language, "lang2")
        unknown_count == CountDetected(instances, first_language, second_language, "unknown")
        total == lang1_count + lang2_count
    IN  IF total = 0
        THEN [lang1_word_count |-> 0,
              lang2_word_count |-> 0,
              lang1_percent |-> RInt(0),
              lang2_percent |-> RInt(0),
              computed_ratio |-> <<"0% : 0%">>,
              details |-> <<"No words detected in text.">>]
        ELSE LET lang1_percent == Rat(lang1_count * 100, total)
                 lang2_percent == Rat(lang2_count * 100, total)
             IN  [lang1_word_count |-> lang1_count,
                  lang2_word_count |-> lang2_count,
                  lang1_percent |-> lang1_percent,
                  lang2_percent |-> lang2_percent,
                  computed_ratio |->
                      <<"pct", FormatTenths(lang1_percent), first_language,
                        FormatTenths(lang2_percent), second_language>>,
                  unknown_words |-> unknown_count,
                  total_words |-> total,
                  details |-> <<"Counted", lang1_count, first_language,
                                lang2_count, second_language>>]

\* compute_cs_ratio: the counts, the percentages and the formatted ratio
compute_cs_ratio(instances, first_language, second_language) ==
    LET lang1_count == CountDetected(instances, first_language, second_language, "lang1")
        lang2_count == CountDetected(instances, first_language, second_language, "lang2")
        unknown_count == CountDetected(instances, first_language, second_language, "unknown")
        total == lang1_count + lang2_count
    IN  IF total = 0
        THEN [lang1_word_count |-> 0,
              lang2_word_count |-> 0,
              lang1_percent |-> RInt(0),
              lang2_percent |-> RInt(0),
              computed_ratio |-> <<"0% : 0%">>,
              details |-> <<"No words detected in text.">>]
        ELSE LET lang1_percent == Rat(lang1_count * 100, total)
                 lang2_percent == Rat(lang2_count * 100, total)
             IN  [lang1_word_count |-> lang1_count,
                  lang2_word_count |-> lang2_count,
                  lang1_percent |-> lang1_percent,
                  lang2_percent |-> lang2_percent,
                  computed_ratio |->
                      <<"pct", FormatTenths(lang2_percent), second_language,
                        FormatTenths(lang1_percent), first_language>>,
                  unknown_words |-> unknown_count,
                  total_words |-> total,
                  details |-> <<"Counted", lang1_count, first_language,
                                lang2_count, second_language>>]

\* target_ratio_str.rstrip("%")
RECURSIVE RStripPercent(_)
RStripPercent(s) ==
    IF s # <<>> /\ s[Len(s)] = "%" THEN RStripPercent(SubSeq(s, 1, Len(s) - 1)) ELSE s

DigitValue ==
    [c \in {"0", "1", "2", "3", "4", "5", "6", "7", "8", "9"} |->
        CASE c = "0" -> 0 [] c = "1" -> 1 [] c = "2" -> 2 [] c = "3" -> 3
          [] c = "4" -> 4 [] c = "5" -> 5 [] c = "6" -> 6 [] c = "7" -> 7
          [] c = "8" -> 8 [] c = "9" -> 9]

IsDigits(s) == s # <<>> /\ \A i \in 1..Len(s) : s[i] \in DOMAIN DigitValue

DigitsValue[s \in Seq(DOMAIN DigitValue)] ==
    IF s = <<>> THEN 0 ELSE 10 * DigitsValue[SubSeq(s, 1, Len(s) - 1)] + DigitValue[s[Len(s)]]

\* float(text) on the texts the model uses (unsigned decimal integers);
\* anything else raises ValueError
FloatParses(s) == IsDigits(s)
FloatOf(s) == RInt(DigitsValue[s])

\* a target that is a text is a sequence of one-character strings; a target
\* that is no text (it has no rstrip: AttributeError) is the value NotAString
NotAString == <<"NoneType">>

\* a step table in place of the linear penalty: full points up to 5 of
\* difference, then 2 points less for every 5 more
calculate_ratio_score_stepped(actual_percent, target_ratio_str, max_points) ==
    IF target_ratio_str = NotAString \/ ~FloatParses(RStripPercent(target_ratio_str))
    THEN Rat(max_points, 2)
    ELSE LET target_percent == FloatOf(RStripPercent(target_ratio_str))
             diff == RAbs(RSub(actual_percent, target_percent))
         IN  IF RLeq(diff, RInt(5)) THEN RInt(max_points)
             ELSE IF RLeq(diff, RInt(10)) THEN RInt(8)
             ELSE IF RLeq(diff, RInt(15)) THEN RInt(6)
             ELSE IF RLeq(diff, RInt(20)) THEN RInt(4)
             ELSE IF RLeq(diff, RInt(25)) THEN RInt(2)
             ELSE RInt(0)

\* a target that does not parse taken as 0 percent, in place of the neutral
\* half of the points
calculate_ratio_score_zero_target(actual_percent, target_ratio_str, max_points) ==
    LET target_percent ==
            IF target_ratio_str = NotAString \/ ~FloatParses(RStripPercent(target_ratio_str))
            THEN RInt(0)
            ELSE FloatOf(RStripPercent(target_ratio_str))
        diff == RAbs(RSub(actual_percent, target_percent))
    IN  RMax(RInt(0), RSub(RInt(max_points), RMul(diff, Rat(1, 2))))

\* calculate_ratio_score: the linear penalty, or half of the points for a
\* target that does not parse
calculate_ratio_score(actual_percent, target_ratio_str, max_points) ==
    IF target_ratio_str = NotAString \/ ~FloatParses(RStripPercent(target_ratio_str))
    THEN Rat(max_points, 2)
    ELSE LET target_percent == FloatOf(RStripPercent(target_ratio_str))
             diff == RAbs(RSub(actual_percent, target_percent))
         IN  RMax(RInt(0), RSub(RInt(max_points), RMul(diff, Rat(1, 2))))


(***************************************************************************)
(* core/mock_run.py: the weighting scheme                                  *)
(***************************************************************************)
\* a judge's structured output that came back as None
NoneResponse == [none |-> TRUE]
IsNone(r) == "none" \in DOMAIN r

\* subscripting None, or a result without its score, raises
WeightingRaises(st) ==
    \/ IsNone(st.fluency_result)
    \/ IsNone(st.naturalness_result)
    \/ IsNone(st.cs_ratio_result)
    \/ IsNone(st.social_cultural_result)

weighting_scheme(st) ==
    LET fluency == st.fluency_result.fluency_score
        naturalness == st.naturalness_result.naturalness_score
        csratio == st.cs_ratio_result.ratio_score
        socio == st.social_cultural_result.socio_cultural_score
    IN  RAdd(RAdd(RAdd(RMul(fluency, Rat(3, 10)),
                       RMul(naturalness, Rat(1, 4))),
                  RMul(csratio, Rat(1, 5))),
             RMul(socio, Rat(1, 4)))

(***************************************************************************)
(* The run record (AgentRunningState): a dict, here a function from field  *)
(* names to values.                                                        *)
(***************************************************************************)
\* state.update(result): the fields of result overwrite or extend state
Update(st, result) ==
    [k \in DOMAIN st \cup DOMAIN result |->
        IF k \in DOMAIN result THEN result[k] ELSE st[k]]

\* del state[k] for every k of keys
Delete(st, keys) == [k \in DOMAIN st \ keys |-> st[k]]


(***************************************************************************)
(* Inputs of a run: the scenarios, and what the external capabilities      *)
(* (generator, judges, refiner, tools) may answer.                         *)
(***************************************************************************)
Text30 == <<"3", "0", "%">>
Text50 == <<"5", "0", "%">>

Scenarios ==
    { [topic |-> "sports", cs_ratio |-> Text30,
       first_language |-> "Arabic", second_language |-> "English"],
      [topic |-> "weather", cs_ratio |-> Text50,
       first_language |-> "Arabic", second_language |-> "English"],
      [topic |-> "sports", cs_ratio |-> Text30,
       first_language |-> "English", second_language |-> "French"],
      [topic |-> "weather", cs_ratio |-> Text50,
       first_language |-> "Arabic", second_language |-> "Urdu"] }

MatrixLanguages == {sc.first_language : sc \in Scenarios}

\* the news articles by topic
NewsDict == [sports |-> <<"match report">>]

\* instance batches: one Arabic and one English word; one English word;
\* one empty instance
BatchMixed == << <<1605, 1585, 32, 104, 105>> >>
BatchLatin == << <<104, 105, 46>> >>
BatchBlank == << <<>> >>
Batches == {BatchMixed, BatchLatin, BatchBlank}

\* a GenerationResponse: with instances (possibly none), or without the key
NoInstances == [type |-> "error"]
GenerationResponses == {[instances |-> b] : b \in Batches \cup {<<>>}} \cup {NoInstances}

\* response.get("instances") is falsy
Falsy(response) == "instances" \notin DOMAIN response \/ response.instances = <<>>

JudgeScores == {8, 10}

\* what a judge call may do: answer with a score, answer None, or raise
JudgeOutcomes == {[kind |-> "score", score |-> RInt(n)] : n \in JudgeScores}
                 \cup {[kind |-> "none"], [kind |-> "raise"]}

\* what the ratio judge may do: answer with notes, answer without, answer None, or raise;
\* its own score and ratio are part of its answer
RatioJudgeOutcomes ==
    { [kind |-> "answer",
       response |-> [ratio_score |-> RInt(7), computed_ratio |-> <<"judge ratio">>,
                     notes |-> <<"judge", "notes">>]],
      [kind |-> "answer",
       response |-> [ratio_score |-> RInt(7), computed_ratio |-> <<"judge ratio">>]],
      [kind |-> "none"],
      [kind |-> "raise"] }

\* the registry of get_all_tools(), in registration order
ToolRegistry == <<"tool_a", "tool_b">>

\* what tool.run(state) may do: return a mapping of named outputs, return
\* something that is no mapping, or raise
ToolOutcomes ==
    { [kind |-> "mapping", outputs |-> [tool_a |-> <<"out", "x">>]],
      [kind |-> "mapping", outputs |-> [tool_b |-> <<"out", "y">>]],
      [kind |-> "none"],
      [kind |-> "raise", error |-> "boom"] }

\* An environment: the scenarios run and the outcomes the external
\* capabilities may produce.  Every specification below runs the same
\* program; each lets one part of the environment vary widely.
FlowEnv ==
    [scenarios |-> Scenarios,
     generator |-> {[instances |-> <<>>], [instances |-> BatchMixed], NoInstances},
     refiner |-> {[instances |-> BatchLatin]},
     judges |-> JudgeOutcomes,
     ratio_judge |-> {o \in RatioJudgeOutcomes :
                        o.kind = "raise" \/ (o.kind = "answer" /\ "notes" \in DOMAIN o.response)},
     tools |-> {o \in ToolOutcomes : o.kind = "mapping" /\ "tool_a" \in DOMAIN o.outputs}]

\* one scenario, with the outcomes that decide the run's route
LoopEnv ==
    [scenarios |-> {sc \in Scenarios : sc.topic = "sports" /\ sc.first_language = "Arabic"},
     generator |-> {[instances |-> <<>>], [instances |-> BatchMixed]},
     refiner |-> {[instances |-> BatchLatin]},
     judges |-> {o \in JudgeOutcomes : o.kind \in {"score", "raise"}},
     ratio_judge |-> {o \in RatioJudgeOutcomes : o.kind = "raise"},
     tools |-> {o \in ToolOutcomes : o.kind = "mapping" /\ "tool_a" \in DOMAIN o.outputs}]

\* the judges answer with scores only
ScoringJudges == {o \in JudgeOutcomes : o.kind = "score"}

ToolEnv ==
    [scenarios |-> {sc \in Scenarios : sc.second_language = "English"},
     generator |-> {[instances |-> <<>>], [instances |-> BatchMixed]},
     refiner |-> {[instances |-> BatchLatin]},
     judges |-> ScoringJudges,
     ratio_judge |-> {o \in RatioJudgeOutcomes :
                        o.kind = "answer" /\ "notes" \in DOMAIN o.response},
     tools |-> ToolOutcomes]

RatioEnv ==
    [scenarios |-> Scenarios,
     generator |-> GenerationResponses,
     refiner |-> {[instances |-> BatchLatin]},
     judges |-> ScoringJudges,
     ratio_judge |-> RatioJudgeOutcomes,
     tools |-> {o \in ToolOutcomes : o.kind = "mapping" /\ "tool_a" \in DOMAIN o.outputs}]

\* a record written to the log by an earlier run
OldRecord == [topic |-> "earlier", first_language |-> "Arabic"]

(***************************************************************************)
(* State                                                                   *)
(***************************************************************************)
VARIABLES
    pc,         \* the stage of the run
    state,      \* the run record
    log,        \* output/<language>.jsonl, by language
    maxRefine,  \* the configured maximum refinement count
    gen,        \* locals of RunDataGenerationAgent
    evalDone,   \* the evaluation axes that have returned in this pass
    mcp         \* locals of RunMCPAgent

vars == <<pc, state, log, maxRefine, gen, evalDone, mcp>>

Axes == {"fluency", "naturalness", "cs_ratio", "social_cultural"}

GenIdle == [at |-> "invoke", retry |-> 0, response |-> NoInstances, invocations |-> <<>>]
McpIdle == [idx |-> 1, result |-> <<>>, ran |-> <<>>]

InitIn(E) ==
    /\ pc = "INIT"
    /\ state \in E.scenarios
    /\ log = [l \in MatrixLanguages |-> IF l = "Arabic" THEN <<OldRecord>> ELSE <<>>]
    /\ maxRefine \in 1..MaxRefineLimit
    /\ gen = GenIdle
    /\ evalDone = {}
    /\ mcp = McpIdle


(***************************************************************************)
(* INIT: the driver's initialisation of the run record                     *)
(***************************************************************************)
StartScenario ==
    /\ pc = "INIT"
    /\ state' = Update(state, [refine_count |-> 0,
                               news_article |-> "",
                               news_hash |-> {},
                               news_dict |-> NewsDict,
                               mcp_result |-> <<>>])
    /\ pc' = "GENERATING"
    /\ UNCHANGED <<log, maxRefine, gen, evalDone, mcp>>

(***************************************************************************)
(* GENERATING: RunDataGenerationAgent                                      *)
(***************************************************************************)
RETRY == 4

\* the news article put into the state before the generator is invoked
WithNewsArticle(st, article) ==
    IF st.topic \notin DOMAIN st.news_dict
    THEN Update(st, [news_article |-> ""])
    ELSE Update(st, [news_article |-> article,
                     news_hash |-> st.news_hash \cup {st.topic}])

NewsChoices(st) ==
    IF st.topic \notin DOMAIN st.news_dict
    THEN {""}
    ELSE {st.news_dict[st.topic][i] : i \in 1..Len(st.news_dict[st.topic])}

\* the locals after the first invocation answered with response
AfterFirstInvoke(response) ==
    [at |-> IF Falsy(response) THEN "while" ELSE "return",
     retry |-> RETRY,
     response |-> response,
     invocations |-> <<response>>]

\* the retry loop with its bound off by one: it goes on while retry >= 0
AfterRetryOffByOne(g, response) ==
    IF ~Falsy(response)
    THEN [at |-> "return", retry |-> g.retry, response |-> response,
          invocations |-> Append(g.invocations, response)]
    ELSE [at |-> IF g.retry - 1 >= 0 THEN "while" ELSE "return",
          retry |-> g.retry - 1, response |-> response,
          invocations |-> Append(g.invocations, response)]

\* the locals after one pass of the retry loop answered with response
AfterRetry(g, response) ==
    IF ~Falsy(response)
    THEN [at |-> "return", retry |-> g.retry, response |-> response,
          invocations |-> Append(g.invocations, response)]
    ELSE [at |-> IF g.retry - 1 > 0 THEN "while" ELSE "return",
          retry |-> g.retry - 1, response |-> response,
          invocations |-> Append(g.invocations, response)]

GenInvoke(E) ==
    /\ pc = "GENERATING"
    /\ gen.at = "invoke"
    /\ \E article \in NewsChoices(state) :
          state' = WithNewsArticle(state, article)
    /\ \/ \E response \in E.generator :
             /\ gen' = AfterFirstInvoke(response)
             /\ pc' = pc
       \/ /\ gen' = GenIdle
          /\ pc' = "GenerationError"
    /\ UNCHANGED <<log, maxRefine, evalDone, mcp>>

GenRetry(E) ==
    /\ pc = "GENERATING"
    /\ gen.at = "while"
    /\ \/ \E response \in E.generator :
             /\ gen' = AfterRetry(gen, response)
             /\ pc' = pc
       \/ /\ gen' = GenIdle
          /\ pc' = "GenerationError"
    /\ UNCHANGED <<state, log, maxRefine, evalDone, mcp>>

\* the stage that follows a returned generation
AfterGeneration == "EVALUATING"

GenReturn ==
    /\ pc = "GENERATING"
    /\ gen.at = "return"
    /\ IF "instances" \notin DOMAIN gen.response
       THEN /\ pc' = "GenerationError"
            /\ state' = state
       ELSE /\ pc' = AfterGeneration
            /\ state' = Update(state, [data_generation_result |-> gen.response.instances])
    /\ gen' = GenIdle
    /\ evalDone' = {}
    /\ UNCHANGED <<log, maxRefine, mcp>>


(***************************************************************************)
(* EVALUATING: the four axes                                               *)
(***************************************************************************)
\* the stage after an axis returned: TOOLING once all four have
AfterAxis(done) == IF done = Axes THEN "TOOLING" ELSE "EVALUATING"

\* the structured output of a judge
JudgeResponse(outcome, score_field) ==
    IF outcome.kind = "none"
    THEN NoneResponse
    ELSE [k \in {score_field} |-> outcome.score]

\* one judged axis: the judge's response goes into the record under field
RunJudge(E, axis, field, score_field) ==
    /\ pc = "EVALUATING"
    /\ axis \notin evalDone
    /\ \E outcome \in E.judges :
          IF outcome.kind = "raise"
          THEN /\ pc' = "JudgeFailure"
               /\ UNCHANGED <<state, evalDone>>
          ELSE /\ state' = Update(state, [k \in {field} |-> JudgeResponse(outcome, score_field)])
               /\ evalDone' = evalDone \cup {axis}
               /\ pc' = AfterAxis(evalDone')
    /\ UNCHANGED <<log, maxRefine, gen, mcp>>

RunFluencyAgent(E) == RunJudge(E, "fluency", "fluency_result", "fluency_score")

RunNaturalnessAgent(E) == RunJudge(E, "naturalness", "naturalness_result", "naturalness_score")

RunSocialCulturalAgent(E) ==
    RunJudge(E, "social_cultural", "social_cultural_result", "socio_cultural_score")

MAX_POINTS == 10

\* the ratio axis result taken from the judge's answer where there is one
CSRatioResponseFromJudge(st, outcome) ==
    LET ratio_data == compute_cs_ratio(st.data_generation_result,
                                       st.first_language, st.second_language)
        ratio_score == calculate_ratio_score(ratio_data.lang2_percent,
                                             st.cs_ratio, MAX_POINTS)
    IN  IF outcome.kind = "answer"
        THEN [ratio_score |-> outcome.response.ratio_score,
              computed_ratio |-> outcome.response.computed_ratio,
              notes |-> IF "notes" \in DOMAIN outcome.response
                        THEN outcome.response.notes
                        ELSE ratio_data.details]
        ELSE [ratio_score |-> ratio_score,
              computed_ratio |-> ratio_data.computed_ratio,
              notes |-> <<"fallback", ratio_data.details, st.cs_ratio>>]

\* the ratio axis result for one outcome of the ratio judge
CSRatioResponse(st, outcome) ==
    LET ratio_data == compute_cs_ratio(st.data_generation_result,
                                       st.first_language, st.second_language)
        ratio_score == calculate_ratio_score(ratio_data.lang2_percent,
                                             st.cs_ratio, MAX_POINTS)
    IN  IF outcome.kind = "answer"
        THEN [ratio_score |-> ratio_score,
              computed_ratio |-> ratio_data.computed_ratio,
              notes |-> IF "notes" \in DOMAIN outcome.response
                        THEN outcome.response.notes
                        ELSE ratio_data.details]
        ELSE [ratio_score |-> ratio_score,
              computed_ratio |-> ratio_data.computed_ratio,
              notes |-> <<"fallback", ratio_data.details, st.cs_ratio>>]

\* the judge's inputs written into the record itself, not into a copy of it
RunCSRatioAgentNoCopy(E) ==
    /\ pc = "EVALUATING"
    /\ "cs_ratio" \notin evalDone
    /\ \E outcome \in E.ratio_judge :
          LET response == CSRatioResponse(state, outcome)
          IN  state' = Update(state, [computed_ratio |-> response.computed_ratio,
                                      cs_ratio_result |-> response])
    /\ evalDone' = evalDone \cup {"cs_ratio"}
    /\ pc' = AfterAxis(evalDone')
    /\ UNCHANGED <<log, maxRefine, gen, mcp>>

\* RunCSRatioAgent: the judge is given a copy of the record; the record gets
\* the ratio axis result
RunCSRatioAgent(E) ==
    /\ pc = "EVALUATING"
    /\ "cs_ratio" \notin evalDone
    /\ \E outcome \in E.ratio_judge :
          state' = Update(state, [cs_ratio_result |-> CSRatioResponse(state, outcome)])
    /\ evalDone' = evalDone \cup {"cs_ratio"}
    /\ pc' = AfterAxis(evalDone')
    /\ UNCHANGED <<log, maxRefine, gen, mcp>>

(***************************************************************************)
(* TOOLING: RunMCPAgent                                                    *)
(***************************************************************************)
ErrorEntry(description) == <<"ERROR: ", description>>

\* the description of the exception a tool's outcome ends in
ErrorOf(outcome) ==
    IF outcome.kind = "raise" THEN outcome.error ELSE "'NoneType' object is not iterable"

\* the loop left at the first exception: the tools after it do not run
AfterToolAborting(m, tool_name, outcome) ==
    [idx |-> IF outcome.kind = "mapping" THEN m.idx + 1 ELSE Len(ToolRegistry) + 1,
     result |-> IF outcome.kind = "mapping"
                THEN Update(m.result, outcome.outputs)
                ELSE Update(m.result, [k \in {tool_name} |-> ErrorEntry(ErrorOf(outcome))]),
     ran |-> Append(m.ran, [tool |-> tool_name, outcome |-> outcome])]

\* a merge in which an entry that is already there is kept
AfterToolKeepingFirst(m, tool_name, outcome) ==
    [idx |-> m.idx + 1,
     result |-> IF outcome.kind = "mapping"
                THEN Update(outcome.outputs, m.result)
                ELSE Update([k \in {tool_name} |-> ErrorEntry(ErrorOf(outcome))], m.result),
     ran |-> Append(m.ran, [tool |-> tool_name, outcome |-> outcome])]

\* the locals after one pass of the loop over the registry
AfterTool(m, tool_name, outcome) ==
    [idx |-> m.idx + 1,
     result |-> IF outcome.kind = "mapping"
                THEN Update(m.result, outcome.outputs)
                ELSE Update(m.result, [k \in {tool_name} |-> ErrorEntry(ErrorOf(outcome))]),
     ran |-> Append(m.ran, [tool |-> tool_name, outcome |-> outcome])]

ToolRun(E) ==
    /\ pc = "TOOLING"
    /\ mcp.idx <= Len(ToolRegistry)
    /\ \E outcome \in E.tools :
          mcp' = AfterTool(mcp, ToolRegistry[mcp.idx], outcome)
    /\ UNCHANGED <<pc, state, log, maxRefine, gen, evalDone>>

ToolsReturn ==
    /\ pc = "TOOLING"
    /\ mcp.idx > Len(ToolRegistry)
    /\ state' = Update(state, [mcp_result |-> mcp.result])
    /\ mcp' = McpIdle
    /\ pc' = "SCORING"
    /\ UNCHANGED <<log, maxRefine, gen, evalDone>>


(***************************************************************************)
(* SCORING: SummarizeResult                                                *)
(***************************************************************************)
\* the summary text: the batch and the four axis results, formatted
SummaryOf(st) ==
    <<st.data_generation_result, st.fluency_result, st.naturalness_result,
      st.cs_ratio_result, st.social_cultural_result>>

\* the score rounded to a whole number of points
RRound(a) == RInt((2 * a[1] + a[2]) \div (2 * a[2]))

SummarizeReturnRounded(st) ==
    [score |-> RRound(weighting_scheme(st)), summary |-> SummaryOf(st)]

\* what SummarizeResult returns to be merged into the record
SummarizeReturn(st) == [score |-> weighting_scheme(st), summary |-> SummaryOf(st)]

SummarizeResult ==
    /\ pc = "SCORING"
    /\ IF WeightingRaises(state)
       THEN /\ state' = Update(state, [summary |-> SummaryOf(state)])
            /\ pc' = "ScoringError"
       ELSE /\ state' = Update(state, SummarizeReturn(state))
            /\ pc' = "DECIDING"
    /\ UNCHANGED <<log, maxRefine, gen, evalDone, mcp>>

(***************************************************************************)
(* The decision after SCORING, and the refinement budget                   *)
(***************************************************************************)
AcceptanceThreshold == 8

\* the stage that follows SCORING
RouteAfterScoring(st) ==
    IF RLeq(RInt(AcceptanceThreshold), st.score) THEN "ACCEPTED" ELSE "REFINING"

Decide ==
    /\ pc = "DECIDING"
    /\ pc' = RouteAfterScoring(state)
    /\ UNCHANGED <<state, log, maxRefine, gen, evalDone, mcp>>

\* a further refinement would exceed the configured maximum
BudgetSpent(st, max_refine) == st.refine_count >= max_refine

RefinementExhausted ==
    /\ pc = "REFINING"
    /\ BudgetSpent(state, maxRefine)
    /\ pc' = "RefinementExhausted"
    /\ UNCHANGED <<state, log, maxRefine, gen, evalDone, mcp>>

(***************************************************************************)
(* ACCEPTED: AcceptanceAgent                                               *)
(***************************************************************************)
TransientFields == {"news_article", "news_hash", "news_dict"}

\* the record as written: the state after the three del statements
AcceptedRecord(st) == Delete(st, TransientFields)

\* the file opened in write mode: what it held is lost
AppendedTruncating(lg, language, record) == [lg EXCEPT ![language] = <<record>>]

\* the log after f.write(record) on output/<language>.jsonl opened in append mode
Appended(lg, language, record) == [lg EXCEPT ![language] = Append(@, record)]

AcceptanceAgent ==
    /\ pc = "ACCEPTED"
    /\ state' = AcceptedRecord(state)
    /\ log' = Appended(log, state.first_language, state')
    /\ pc' = "DONE"
    /\ UNCHANGED <<maxRefine, gen, evalDone, mcp>>

(***************************************************************************)
(* REFINING: RunRefinerAgent                                               *)
(***************************************************************************)
REFINE_COUNT == 3

\* what RunRefinerAgent returns to be merged into the record
RefinerReturn(st, response) == [refiner_result |-> response, refine_count |-> REFINE_COUNT]

\* the stage that follows a refinement
AfterRefinement == "EVALUATING"

RunRefinerAgent(E) ==
    /\ pc = "REFINING"
    /\ ~BudgetSpent(state, maxRefine)
    /\ \/ \E response \in E.refiner :
             /\ state' = Update(state, RefinerReturn(state, response))
             /\ pc' = AfterRefinement
       \/ /\ pc' = "RefinerError"
          /\ state' = state
    /\ evalDone' = {}
    /\ UNCHANGED <<log, maxRefine, gen, mcp>>

(***************************************************************************)
(* The run                                                                 *)
(***************************************************************************)
\* every step of the run but the ratio axis
OtherSteps(E) ==
    \/ StartScenario
    \/ GenInvoke(E)
    \/ GenRetry(E)
    \/ GenReturn
    \/ RunFluencyAgent(E)
    \/ RunNaturalnessAgent(E)
    \/ RunSocialCulturalAgent(E)
    \/ ToolRun(E)
    \/ ToolsReturn
    \/ SummarizeResult
    \/ Decide
    \/ RefinementExhausted
    \/ AcceptanceAgent
    \/ RunRefinerAgent(E)

Run(E) == RunCSRatioAgent(E) \/ OtherSteps(E)

\* what every RunCSRatioAgent step does to the set of evaluated axes: the
\* agent returns a result whatever the texts and whatever the judge answers,
\* so the step can be taken whenever the ratio axis is due
RatioAxisEvaluated ==
    /\ pc = "EVALUATING"
    /\ "cs_ratio" \notin evalDone
    /\ evalDone' = evalDone \cup {"cs_ratio"}

\* the pipeline, with the judges' scores varying
Init == InitIn(FlowEnv)
Next == Run(FlowEnv)
Spec == Init /\ [][Next]_vars

\* one scenario, run by a driver that calls the agents one after the other:
\* no step that can be taken is postponed forever
FairSpec ==
    /\ InitIn(LoopEnv)
    /\ [][Run(LoopEnv)]_vars
    /\ WF_vars(OtherSteps(LoopEnv))
    /\ WF_evalDone(RatioAxisEvaluated)

\* the pipeline, with the tools' outcomes varying
ToolSpec == InitIn(ToolEnv) /\ [][Run(ToolEnv)]_vars

\* the pipeline, with the batches and the ratio judge's outcomes varying
RatioSpec == InitIn(RatioEnv) /\ [][Run(RatioEnv)]_vars

(***************************************************************************)
(* core/mock_run.py: main() runs the calculator, the scorer, the tools and *)
(* the weighting scheme on a record whose batch and judge results are      *)
(* given                                                                   *)
(***************************************************************************)
\* texts of the record's batch, as code points:
\*   1605, 1585 are Arabic letters; 97, 104, 105 are a, h, i; 46 is "."
MockBatches ==
    { << <<1605, 1585, 32, 104, 105>> >>,           \* one Arabic word, one Latin word
      << <<104, 105, 46>> >>,                       \* "hi."
      << <<>> >>,                                   \* [""]
      << <<1605, 32, 1585, 32, 104>> >>,            \* two Arabic words, one Latin word
      << <<104, 32, 1605>>, <<1585>> >>,            \* the same words, other order, two instances
      << <<1605, 32, 1585>>, <<104, 32, 105>> >>,   \* two Arabic words; two Latin words
      << <<97, 1605, 1585>> >>,                     \* one word: a Latin letter, then two Arabic letters
      << <<104, 105, 32, 46>> >> }                  \* "hi ."

\* (first_language, second_language)
MockLanguages ==
    { <<"Arabic", "English">>, <<"English", "French">>,
      <<"Arabic", "Klingon">>, <<"Klingon", "Arabic">> }

\* state["cs_ratio"]: texts float() reads after rstrip("%"), texts it does
\* not, and a value that is no text
MockTargets ==
    { <<"0", "%">>, <<"1", "0", "%">>, <<"3", "0", "%">>, <<"5", "0", "%">>,
      <<"1", "0", "0", "%">>, <<"5", "0">>,
      <<>>, <<"%">>, <<"n", "o", "t", "-", "a", "-", "p", "e", "r", "c", "e", "n", "t">>,
      NotAString }

MockStates ==
    { [topic |-> "sports",
       cs_ratio |-> target,
       first_language |-> languages[1],
       second_language |-> languages[2],
       data_generation_result |-> batch,
       fluency_result |-> [fluency_score |-> scores[1]],
       naturalness_result |-> [naturalness_score |-> scores[2]],
       cs_ratio_result |-> NoneResponse,
       social_cultural_result |-> [socio_cultural_score |-> scores[3]],
       refine_count |-> 0] :
        target \in MockTargets, languages \in MockLanguages, batch \in MockBatches,
        scores \in {<<RInt(10), RInt(10), RInt(10)>>, <<RInt(0), RInt(0), RInt(0)>>,
                    <<RInt(9), Rat(17, 2), RInt(9)>>} }

MockInit ==
    /\ pc = "MOCK_RATIO"
    /\ state \in MockStates
    /\ log = [mock_run_result |-> <<>>]
    /\ maxRefine = 1
    /\ gen = GenIdle
    /\ evalDone = {}
    /\ mcp = McpIdle

\* the ratio score taken from the first (matrix) language's percentage
MockRatioResultOfMatrixShare(st) ==
    LET ratio_data == compute_cs_ratio(st.data_generation_result,
                                       st.first_language, st.second_language)
        ratio_score == calculate_ratio_score(ratio_data.lang1_percent,
                                             st.cs_ratio, MAX_POINTS)
    IN  [ratio_score |-> ratio_score,
         computed_ratio |-> ratio_data.computed_ratio,
         notes |-> <<"Target", st.cs_ratio, "Actual",
                     FormatTenths(ratio_data.lang2_percent), ratio_data.details>>]

\* state["cs_ratio_result"] = {...}: the hybrid ratio calculation
MockRatioResult(st) ==
    LET ratio_data == compute_cs_ratio(st.data_generation_result,
                                       st.first_language, st.second_language)
        ratio_score == calculate_ratio_score(ratio_data.lang2_percent,
                                             st.cs_ratio, MAX_POINTS)
    IN  [ratio_score |-> ratio_score,
         computed_ratio |-> ratio_data.computed_ratio,
         notes |-> <<"Target", st.cs_ratio, "Actual",
                     FormatTenths(ratio_data.lang2_percent), ratio_data.details>>]

MockRatio ==
    /\ pc = "MOCK_RATIO"
    /\ state' = Update(state, [cs_ratio_result |-> MockRatioResult(state)])
    /\ pc' = "MOCK_TOOLS"
    /\ UNCHANGED <<log, maxRefine, gen, evalDone, mcp>>

\* what the tools of the mock run may do
MockToolOutcomes ==
    {o \in ToolOutcomes : o.kind = "raise" \/ (o.kind = "mapping" /\ "tool_b" \in DOMAIN o.outputs)}

\* one pass of the loop over the registry
MockToolRun ==
    /\ pc = "MOCK_TOOLS"
    /\ mcp.idx <= Len(ToolRegistry)
    /\ \E outcome \in MockToolOutcomes :
          mcp' = AfterTool(mcp, ToolRegistry[mcp.idx], outcome)
    /\ UNCHANGED <<pc, state, log, maxRefine, gen, evalDone>>

\* state["mcp_result"], state["score"], state["summary"], and the line
\* appended to output/mock_run_result.jsonl
MockFinish ==
    /\ pc = "MOCK_TOOLS"
    /\ mcp.idx > Len(ToolRegistry)
    /\ state' = Update(Update(state, [mcp_result |-> mcp.result]),
                       [score |-> weighting_scheme(Update(state, [mcp_result |-> mcp.result])),
                        summary |-> <<"Mock run produced", Len(state.data_generation_result)>>])
    /\ log' = Appended(log, "mock_run_result", state')
    /\ mcp' = McpIdle
    /\ pc' = "MOCK_DONE"
    /\ UNCHANGED <<maxRefine, gen, evalDone>>

MockNext == MockRatio \/ MockToolRun \/ MockFinish

\* mock_run.py's main(), on every record of MockStates
MockSpec == MockInit /\ [][MockNext]_vars

\* the hybrid ratio calculation of the mock run has been made
MockMeasured == pc \in {"MOCK_TOOLS", "MOCK_DONE"}


(***************************************************************************)
(* Properties                                                              *)
(***************************************************************************)
Threshold == RInt(AcceptanceThreshold)

\* the records this run has appended to the log
NewRecords == {r \in UNION {{log[l][i] : i \in 1..Len(log[l])} : l \in DOMAIN log} :
                  "score" \in DOMAIN r}

\* C1: the step that follows SCORING goes to ACCEPTED exactly when the
\* weighted sum of the four axis scores is at least 8.0 and to REFINING
\* otherwise, and every record the run appends to the log has a final
\* score of at least 8.0.
C1_AcceptIffThreshold ==
    [][ /\ pc = "DECIDING" =>
            pc' = IF RLeq(Threshold, weighting_scheme(state))
                  THEN "ACCEPTED" ELSE "REFINING"
        /\ \A l \in DOMAIN log : \A i \in 1..Len(log'[l]) :
              "score" \in DOMAIN log'[l][i] =>
                  /\ RLeq(Threshold, log'[l][i].score)
                  /\ log'[l][i].score = weighting_scheme(log'[l][i])
      ]_vars

\* a record accepted with a final score of exactly 8.0 has been written
C1_Witness ==
    /\ pc = "DONE"
    /\ \E r \in NewRecords : r.score = Threshold


\* the responses the generator has given so far in this stage
Invocations == gen.invocations

\* C2: the generator is invoked once and re-invoked only while the latest
\* batch is empty, at most 5 times in all; the retries stop at the first
\* non-empty batch and only then or after the 5th invocation, and the
\* batch handed on is the last one received.
C2_BoundedRetries ==
    [][ pc = "GENERATING" =>
          /\ Len(Invocations) <= 5
          /\ \A i \in 1..(Len(Invocations) - 1) : Falsy(Invocations[i])
          /\ gen.at = "while" => Falsy(gen.response) /\ Len(Invocations) < 5
          /\ gen.at = "return" =>
                /\ gen.response = Invocations[Len(Invocations)]
                /\ Falsy(gen.response) => Len(Invocations) = 5
          /\ pc' = "EVALUATING" =>
                state'.data_generation_result = Invocations[Len(Invocations)].instances
      ]_vars

\* a non-empty batch arrived at the fifth invocation and was handed on
C2_Witness ==
    /\ pc = "GENERATING"
    /\ gen.at = "return"
    /\ Len(Invocations) = 5
    /\ ~Falsy(gen.response)

\* the stages a run passes through once generation has returned
AfterGenerating ==
    {"EVALUATING", "TOOLING", "SCORING", "DECIDING", "ACCEPTED", "REFINING", "DONE"}

\* C3: a run whose batch is still empty after the initial call and the 4
\* retries never reaches EVALUATING, SCORING or ACCEPTED (nor any later
\* stage) with an empty data_generation_result.
C3_EmptyBatchIsTerminal ==
    pc \in AfterGenerating => state.data_generation_result # <<>>


\* the stages in which a run has ended
Terminal ==
    {"DONE", "RefinementExhausted", "GenerationError", "JudgeFailure",
     "ScoringError", "RefinerError"}

\* C4: every run terminates: whatever the scores, the loop EVALUATING ->
\* TOOLING -> SCORING -> REFINING is left after at most the configured
\* number of refinements, and the run ends accepted or exhausted (or in a
\* failure) instead of looping forever.
C4_RunTerminates == <>(pc \in Terminal)

\* C5: a pass through REFINING adds exactly one to refine_count, and no
\* other stage changes it.
C5_RefineCountIncrements ==
    [][ "refine_count" \in DOMAIN state =>
          state'.refine_count =
              IF pc = "REFINING" /\ pc' = "EVALUATING"
              THEN state.refine_count + 1
              ELSE state.refine_count
      ]_vars

\* the four axis results of a record are there and hold a score
AxesPopulated(r) ==
    /\ {"fluency_result", "naturalness_result", "cs_ratio_result",
        "social_cultural_result"} \subseteq DOMAIN r
    /\ "fluency_score" \in DOMAIN r.fluency_result
    /\ "naturalness_score" \in DOMAIN r.naturalness_result
    /\ "ratio_score" \in DOMAIN r.cs_ratio_result
    /\ "socio_cultural_score" \in DOMAIN r.social_cultural_result

\* C6: every record appended to the log carries the four axis results,
\* populated, and a run that failed appends no record: none after a judge
\* failure or refinement exhaustion, and none for a batch that was still
\* empty after the retries (the generation failure of C3).
C6_NoPartialRecord ==
    /\ \A r \in NewRecords : AxesPopulated(r) /\ r.data_generation_result # <<>>
    /\ pc \in Terminal \ {"DONE"} => NewRecords = {}

\* C7: the ACCEPTED step writes the record without the three transient
\* fields and with every other field as it was, as one more line of the log
\* of the record's first_language; the lines already there and the other
\* logs are unchanged, and no other step touches the log.
C7_AppendOnce ==
    [][ IF pc = "ACCEPTED"
        THEN LET language == state.first_language
                 written == log'[language][Len(log'[language])]
             IN  /\ log'[language] = Append(log[language], written)
                 /\ \A l \in DOMAIN log \ {language} : log'[l] = log[l]
                 /\ DOMAIN written = DOMAIN state \ {"news_article", "news_hash", "news_dict"}
                 /\ \A k \in DOMAIN written : written[k] = state[k]
                 /\ pc' = "DONE"
        ELSE log' = log
      ]_vars

\* a record was appended after the one an earlier run had left in the log
C7_Witness ==
    /\ pc = "DONE"
    /\ Len(log["Arabic"]) = 2
    /\ log["Arabic"][1] = OldRecord
    /\ "news_dict" \notin DOMAIN log["Arabic"][2]

\* the loop over the registry has ended and RunMCPAgent is about to return
ToolsRan == pc = "TOOLING" /\ mcp.idx > Len(ToolRegistry)

\* the i-th invocation ended in an exception
Raised(i) == mcp.ran[i].outcome.kind # "mapping"

\* the merged output holds the ERROR entry of the i-th invocation
ErrorRecorded(i) ==
    /\ mcp.ran[i].tool \in DOMAIN mcp.result
    /\ mcp.result[mcp.ran[i].tool] = ErrorEntry(ErrorOf(mcp.ran[i].outcome))

\* an invocation after the i-th wrote an entry under the i-th tool's name
Overwritten(i) ==
    \E j \in (i + 1)..Len(mcp.ran) :
        \/ /\ mcp.ran[j].outcome.kind = "mapping"
           /\ mcp.ran[i].tool \in DOMAIN mcp.ran[j].outcome.outputs
        \/ /\ mcp.ran[j].outcome.kind # "mapping"
           /\ mcp.ran[j].tool = mcp.ran[i].tool

\* the tools run one after the other in registration order, each once, and
\* TOOLING is left for SCORING with the merged output in the record
EveryToolOnce ==
    /\ Len(mcp.ran) = mcp.idx - 1
    /\ \A i \in 1..Len(mcp.ran) : mcp.ran[i].tool = ToolRegistry[i]
    /\ pc' \in {"TOOLING", "SCORING"}
    /\ pc' = "SCORING" =>
          /\ Len(mcp.ran) = Len(ToolRegistry)
          /\ state'.mcp_result = mcp.result

\* C8 (as stated): every registered tool is invoked exactly once, the stage
\* never raises, and the merged output holds toolName -> "ERROR: ..." for
\* every tool that raised.
C8_AsStated ==
    [][ pc = "TOOLING" =>
          /\ EveryToolOnce
          /\ \A i \in 1..Len(mcp.ran) : Raised(i) => ErrorRecorded(i)
      ]_vars

\* C8 (amended): every registered tool is invoked exactly once, the stage
\* never raises, and the merged output holds toolName -> "ERROR: ..." for
\* every tool that raised, unless a tool that ran after it returned an
\* output under that same name, which then replaces the entry.
C8_ToolFailuresIsolated ==
    [][ pc = "TOOLING" =>
          /\ EveryToolOnce
          /\ \A i \in 1..Len(mcp.ran) : Raised(i) => ErrorRecorded(i) \/ Overwritten(i)
      ]_vars

\* the first tool raised, the second ran all the same, and both entries are
\* in the merged output
C8_Witness ==
    /\ ToolsRan
    /\ Len(mcp.ran) = 2
    /\ mcp.ran[1].outcome.kind = "raise"
    /\ mcp.ran[2].outcome.kind = "mapping"
    /\ mcp.result["tool_a"] = ErrorEntry("boom")
    /\ "tool_b" \in DOMAIN mcp.result

\* the deterministic measurement and score of the record's batch
Measured(st) ==
    compute_cs_ratio(st.data_generation_result, st.first_language, st.second_language)

Scored(st) == calculate_ratio_score(Measured(st).lang2_percent, st.cs_ratio, MAX_POINTS)

\* C9: whatever the ratio judge does (answers with notes, without, with
\* nothing, or raises), the ratio axis result holds the score and the
\* formatted ratio computed by compute_cs_ratio and calculate_ratio_score
\* from the batch and the target; the step changes nothing else in the
\* record, and it does not fail the run.
C9_RatioIsDeterministic ==
    [][ "cs_ratio" \in evalDone' \ evalDone =>
          /\ state'.cs_ratio_result.ratio_score = Scored(state)
          /\ state'.cs_ratio_result.computed_ratio = Measured(state).computed_ratio
          /\ DOMAIN state'.cs_ratio_result = {"ratio_score", "computed_ratio", "notes"}
          /\ \A k \in DOMAIN state : k # "cs_ratio_result" => state'[k] = state[k]
          /\ pc' \in {"EVALUATING", "TOOLING"}
      ]_vars

\* the judge answered with its own score and ratio; its notes are in the
\* result, its score is not
C9_Witness ==
    /\ "cs_ratio" \in evalDone
    /\ state.cs_ratio_result.notes = <<"judge", "notes">>
    /\ state.cs_ratio_result.ratio_score # RInt(7)
    /\ state.cs_ratio_result.computed_ratio # <<"judge ratio">>
    /\ state.data_generation_result # <<>>

\* the two languages are written in the same script: the classifier knows
\* them by the same range of code points
SameScriptGroup(lang1, lang2) == get_language_range(lang1) = get_language_range(lang2)

\* C10: for two languages of the same script group, whatever the batch, the
\* measurement is indeterminate: no word is counted for either language,
\* and the ratio axis score is 0.  (The result of compute_cs_ratio has no
\* status field; the formula states what indeterminate means for the
\* counts and the score.)
C10_SameScriptIndeterminate ==
    ( /\ "cs_ratio" \in evalDone
      /\ SameScriptGroup(state.first_language, state.second_language) )
    => /\ Measured(state).lang1_word_count = 0
       /\ Measured(state).lang2_word_count = 0
       /\ state.cs_ratio_result.ratio_score = RInt(0)

\* the name is a key of the language table
InLanguageTable(language) == language \in DOMAIN LANGUAGE_RANGES

\* the Latin range
LatinRange == <<0, 255>>

\* C11: a language name that is not in the language table resolves to no
\* script (never to the Latin range by default), and a measurement with such
\* a name as first or second language is indeterminate: no word is counted
\* for either language, whatever the batch.
C11_UnknownLanguageIndeterminate ==
    \A language \in {state.first_language, state.second_language} :
        (MockMeasured /\ ~InLanguageTable(language))
        => /\ get_language_range(language) # LatinRange
           /\ Measured(state).lang1_word_count = 0
           /\ Measured(state).lang2_word_count = 0

\* the number of words of the record's batch counted for either language
TotalClassified(st) ==
    CountDetected(st.data_generation_result, st.first_language, st.second_language, "lang1")
    + CountDetected(st.data_generation_result, st.first_language, st.second_language, "lang2")

\* the record's target is a text that float() reads after rstrip("%")
TargetParses(st) == st.cs_ratio # NotAString /\ FloatParses(RStripPercent(st.cs_ratio))

\* C12: when no word of the batch is counted for either language, the
\* ratio axis score is 0 whatever the target, a target of 0% included: it is
\* not computed from the percentage 0.  (The result of compute_cs_ratio has
\* no status field; the formula states the score.)
C12_EmptyScoresZero ==
    (MockMeasured /\ TargetParses(state) /\ TotalClassified(state) = 0)
    => state.cs_ratio_result.ratio_score = RInt(0)

\* the percentages the mock run measures, and the targets it reads
MockPercents == {Measured(st).lang2_percent : st \in MockStates}
MockParsedTargets == {st.cs_ratio : st \in {x \in MockStates : TargetParses(x)}}

\* |actual - target|, for a target text that parses
Deviation(actual_percent, target_ratio_str) ==
    RAbs(RSub(actual_percent, FloatOf(RStripPercent(target_ratio_str))))

NeutralScore == Rat(MAX_POINTS, 2)

Precision == 53
FractionBits == 64
Bit == {0, 1}

Zeros(n) == [i \in 1..n |-> 0]

BitsOfInt[n \in Nat] ==
    IF n = 0 THEN <<>> ELSE Append(BitsOfInt[n \div 2], n % 2)

StripLeading[b \in Seq(Bit)] ==
    IF b = <<>> \/ b[1] = 1 THEN b ELSE StripLeading[Tail(b)]

TrailingZeros[b \in Seq(Bit)] ==
    IF b = <<>> \/ b[Len(b)] = 1 THEN 0
    ELSE 1 + TrailingZeros[SubSeq(b, 1, Len(b) - 1)]

Canon(bits, e) ==
    LET s == StripLeading[bits]
        z == TrailingZeros[s]
    IN  IF s = <<>> THEN << <<>>, 0 >> ELSE <<SubSeq(s, 1, Len(s) - z), e + z>>

Increment[b \in Seq(Bit)] ==
    IF b = <<>> THEN <<1>>
    ELSE IF b[Len(b)] = 0 THEN Append(SubSeq(b, 1, Len(b) - 1), 1)
    ELSE Append(Increment[SubSeq(b, 1, Len(b) - 1)], 0)

\* the double nearest to bits * 2^e; sticky says that the exact value has
\* more nonzero bits below the ones given
RoundToDouble(bits, e, sticky) ==
    LET s == StripLeading[bits]
        n == Len(s)
    IN  IF n <= Precision THEN Canon(s, e)
        ELSE LET keep == SubSeq(s, 1, Precision)
                 rest == sticky \/ \E i \in (Precision + 2)..n : s[i] = 1
                 up == s[Precision + 1] = 1 /\ (rest \/ keep[Precision] = 1)
             IN  Canon(IF up THEN Increment[keep] ELSE keep, e + n - Precision)

\* the first k binary places of r / t, for r < t, and what is left over
QuotientBits[r \in Nat, t \in Nat \ {0}, k \in Nat] ==
    IF k = 0 THEN <<>> ELSE <<(2 * r) \div t>> \o QuotientBits[(2 * r) % t, t, k - 1]

QuotientRest[r \in Nat, t \in Nat \ {0}, k \in Nat] ==
    IF k = 0 THEN r ELSE QuotientRest[(2 * r) % t, t, k - 1]

\* count / total, two ints
FDiv(count, total) ==
    RoundToDouble(BitsOfInt[count \div total] \o QuotientBits[count % total, total, FractionBits],
                  0 - FractionBits,
                  QuotientRest[count % total, total, FractionBits] # 0)

TimesSmall[b \in Seq(Bit), k \in Nat, carry \in Nat] ==
    IF b = <<>> THEN BitsOfInt[carry]
    ELSE LET v == b[Len(b)] * k + carry
         IN  Append(TimesSmall[SubSeq(b, 1, Len(b) - 1), k, v \div 2], v % 2)

\* x * k, a double and an int
FMulInt(x, k) == RoundToDouble(TimesSmall[x[1], k, 0], x[2], FALSE)

AddBits[a \in Seq(Bit), b \in Seq(Bit), carry \in Bit] ==
    IF a = <<>> THEN (IF carry = 1 THEN <<1>> ELSE <<>>)
    ELSE LET v == a[Len(a)] + b[Len(b)] + carry
         IN  Append(AddBits[SubSeq(a, 1, Len(a) - 1), SubSeq(b, 1, Len(b) - 1), v \div 2], v % 2)

\* the two numerals brought to one exponent and one length
Aligned(x, y) ==
    LET e == IF x[2] <= y[2] THEN x[2] ELSE y[2]
        a == x[1] \o Zeros(x[2] - e)
        b == y[1] \o Zeros(y[2] - e)
        n == IF Len(a) >= Len(b) THEN Len(a) ELSE Len(b)
    IN  [a |-> Zeros(n - Len(a)) \o a, b |-> Zeros(n - Len(b)) \o b, e |-> e]

FAdd(x, y) ==
    LET al == Aligned(x, y) IN RoundToDouble(AddBits[al.a, al.b, 0], al.e, FALSE)

BitsLeq[a \in Seq(Bit), b \in Seq(Bit)] ==
    IF a = <<>> THEN TRUE
    ELSE IF a[1] # b[1] THEN a[1] < b[1]
    ELSE BitsLeq[Tail(a), Tail(b)]

FLeq(x, y) == LET al == Aligned(x, y) IN BitsLeq[al.a, al.b]

FInt(n) == Canon(BitsOfInt[n], 0)

\* the percentage cut to a whole number
PercentOfTruncated(count, total) == FInt((count * 100) \div total)

\* (count / total) * 100
PercentOf(count, total) == FMulInt(FDiv(count, total), 100)

\* lang1_percent and lang2_percent of a measurement, as the doubles that
\* lines 139-140 of compute_cs_ratio produce (the record of compute_cs_ratio
\* above carries their exact values)
Lang1PercentDouble(st) == PercentOf(Measured(st).lang1_word_count, TotalClassified(st))
Lang2PercentDouble(st) == PercentOf(Measured(st).lang2_word_count, TotalClassified(st))

\* the doubles 100 - 2^-45 and 100 + 2^-45: two units in the last place
\* of the doubles just below 100
RoundingExponent == 45
HundredBelow == <<BitsOfInt[99] \o [i \in 1..RoundingExponent |-> 1], 0 - RoundingExponent>>
HundredAbove == <<BitsOfInt[100] \o Zeros(RoundingExponent - 1) \o <<1>>, 0 - RoundingExponent>>

\* counts and range of a measurement: the total is the matrix count plus the
\* embedded count with the unknown words left out, and each percentage lies
\* in [0,100]
CountsAndRange(st) ==
    LET measured == Measured(st)
    IN  /\ measured.total_words = measured.lang1_word_count + measured.lang2_word_count
        /\ measured.total_words + measured.unknown_words
              = Len(AllWords(st.data_generation_result))
        /\ FLeq(FInt(0), Lang1PercentDouble(st))
        /\ FLeq(Lang1PercentDouble(st), FInt(100))
        /\ FLeq(FInt(0), Lang2PercentDouble(st))
        /\ FLeq(Lang2PercentDouble(st), FInt(100))

PercentSum(st) == FAdd(Lang1PercentDouble(st), Lang2PercentDouble(st))

\* C15 as stated: for a measurement with at least one classified word, the
\* total is the matrix count plus the embedded count with the unknown words
\* left out, the two percentages add up to exactly 100, and each lies in
\* [0,100].
C15_PercentagesSumTo100 ==
    (MockMeasured /\ TotalClassified(state) > 0)
    => /\ CountsAndRange(state)
       /\ PercentSum(state) = FInt(100)

\* C15: for a measurement with at least one classified word, the total is
\* the matrix count plus the embedded count with the unknown words left
\* out, each percentage lies in [0,100], and the two percentages add up to
\* 100 within rounding: the sum is a double between 100 - 2^-45 and
\* 100 + 2^-45.
C15_PercentagesSumWithinRounding ==
    (MockMeasured /\ TotalClassified(state) > 0)
    => /\ CountsAndRange(state)
       /\ FLeq(HundredBelow, PercentSum(state))
       /\ FLeq(PercentSum(state), HundredAbove)

\* two matrix words and one embedded word, measured: the percentages add up
\* to the double just below 100
C15_Witness ==
    /\ pc = "MOCK_DONE"
    /\ Measured(state).lang1_word_count = 2
    /\ Measured(state).lang2_word_count = 1
    /\ PercentSum(state) # FInt(100)
    /\ FLeq(HundredBelow, PercentSum(state))
    /\ FLeq(PercentSum(state), FInt(100))

\* the orders in which n things can be put
Orders(n) == {f \in [1..n -> 1..n] : \A i, j \in 1..n : f[i] = f[j] => i = j}

\* the words put into instances: a new instance starts after the word at
\* each position in cuts, and the words of an instance are joined by a space
RECURSIVE Regroup(_, _)
Regroup(words, cuts) ==
    LET n == Len(words)
    IN  IF n = 0 THEN << <<>> >>
        ELSE IF n = 1 THEN <<words[1]>>
        ELSE LET front == Regroup(SubSeq(words, 1, n - 1), cuts)
             IN  IF (n - 1) \in cuts THEN Append(front, words[n])
                 ELSE [front EXCEPT ![Len(front)] = @ \o <<32>> \o words[n]]

\* every batch that holds the words of the given one, in any order and
\* spread over the instances in any way
Rearrangements(instances) ==
    LET words == AllWords(instances)
        n == Len(words)
    IN  {Regroup([i \in 1..n |-> words[f[i]]], cuts) :
            f \in Orders(n), cuts \in SUBSET (1..(n - 1))}

\* C16: compute_cs_ratio returns the same counts and percentages when the
\* instances are put in another order and when the words are put in another
\* order, inside an instance or moved from one instance to another.
C16_OrderInsensitive ==
    MockMeasured
    => \A rearranged \in Rearrangements(state.data_generation_result) :
          compute_cs_ratio(rearranged, state.first_language, state.second_language)
             = Measured(state)

\* a batch of two instances with two words of each language, measured, of
\* which one rearrangement swaps the instances and another moves a word
C16_Witness ==
    /\ pc = "MOCK_DONE"
    /\ state.data_generation_result = << <<1605,32,1585>>, <<104,32,105>> >>
    /\ Measured(state).lang1_word_count = 2
    /\ Measured(state).lang2_word_count = 2
    /\ << <<104,32,105>>, <<1605,32,1585>> >> \in Rearrangements(state.data_generation_result)
    /\ << <<105>>, <<1585,32,104,32,1605>> >> \in Rearrangements(state.data_generation_result)

\* ---- the weighting as Python computes it, on doubles ----
\* a * b, two binary numerals, by long multiplication on limbs of 14 bits
\* (the first limb is the lowest)
LimbBits == 14
LimbBase == 16384

BitsValue[b \in Seq(Bit)] ==
    IF b = <<>> THEN 0 ELSE 2 * BitsValue[SubSeq(b, 1, Len(b) - 1)] + b[Len(b)]

Limbs(b) ==
    LET n == Len(b)
    IN  [i \in 1..((n + LimbBits - 1) \div LimbBits) |->
            BitsValue[SubSeq(b, IF n - LimbBits * i + 1 >= 1 THEN n - LimbBits * i + 1 ELSE 1,
                             n - LimbBits * (i - 1))]]

LimbNumeral(v) == Zeros(LimbBits - Len(BitsOfInt[v])) \o BitsOfInt[v]

\* the sum of the products A[i] * B[j] with i + j = k + 1, from i on
RECURSIVE Column(_, _, _, _)
Column(A, B, k, i) ==
    IF i > Len(A) THEN 0
    ELSE (IF (k - i + 1) \in 1..Len(B) THEN A[i] * B[k - i + 1] ELSE 0)
         + Column(A, B, k, i + 1)

RECURSIVE Carried(_, _, _, _)
Carried(A, B, k, carry) ==
    IF k > Len(A) + Len(B) - 1 THEN BitsOfInt[carry]
    ELSE LET v == Column(A, B, k, 1) + carry
         IN  Carried(A, B, k + 1, v \div LimbBase) \o LimbNumeral(v % LimbBase)

MulBits(a, b) ==
    IF a = <<>> \/ b = <<>> THEN <<>> ELSE Carried(Limbs(a), Limbs(b), 1, 0)

\* x * y, two doubles
FMul(x, y) ==
    RoundToDouble(MulBits(x[1], y[1]), x[2] + y[2], FALSE)

\* x + y without the rounding
ExactSum(x, y) ==
    LET al == Aligned(x, y) IN Canon(AddBits[al.a, al.b, 0], al.e)

\* the literals 0.3, 0.25 and 0.2
FluencyWeight == FDiv(3, 10)
NaturalnessWeight == FDiv(1, 4)
RatioWeight == FDiv(1, 5)
SocioWeight == FDiv(1, 4)

Weighted(fluency, naturalness, csratio, socio) ==
    FAdd(FAdd(FAdd(FMul(fluency, FluencyWeight),
                   FMul(naturalness, NaturalnessWeight)),
              FMul(csratio, RatioWeight)),
         FMul(socio, SocioWeight))

\* the ratio axis weighted 0.25 and the socio-cultural axis 0.2
weighting_scheme_ratio_quarter(st) ==
    FAdd(FAdd(FAdd(FMul(st.fluency_result.fluency_score, FluencyWeight),
                   FMul(st.naturalness_result.naturalness_score, NaturalnessWeight)),
              FMul(st.cs_ratio_result.ratio_score, SocioWeight)),
         FMul(st.social_cultural_result.socio_cultural_score, RatioWeight))

\* weighting_scheme on a record whose scores are doubles
weighting_scheme_double(st) ==
    Weighted(st.fluency_result.fluency_score,
             st.naturalness_result.naturalness_score,
             st.cs_ratio_result.ratio_score,
             st.social_cultural_result.socio_cultural_score)

\* 9.999999999999998, the double just below 10: the ratio score that
\* calculate_ratio_score returns for 29 embedded words of 100 with the
\* target "29%" (0.29 * 100 is 28.999999999999996)
JustBelowTen == <<BitsOfInt[9] \o [i \in 1..49 |-> 1], 0 - 49>>

\* the scores the axes are given: 0, 3, 5, 10 and the double just below 10
AxisDoubles == {FInt(0), FInt(3), FInt(5), FInt(10), JustBelowTen}

WeighStates ==
    {[fluency_result |-> [fluency_score |-> fluency],
      naturalness_result |-> [naturalness_score |-> naturalness],
      cs_ratio_result |-> [ratio_score |-> csratio],
      social_cultural_result |-> [socio_cultural_score |-> socio]] :
        fluency \in AxisDoubles, naturalness \in AxisDoubles,
        csratio \in AxisDoubles, socio \in AxisDoubles}

WeighInit ==
    /\ pc = "WEIGH"
    /\ state \in WeighStates
    /\ log = [mock_run_result |-> <<>>]
    /\ maxRefine = 1
    /\ gen = GenIdle
    /\ evalDone = {}
    /\ mcp = McpIdle

\* state["score"] = weighting_scheme(state)
Weigh ==
    /\ pc = "WEIGH"
    /\ state' = Update(state, [score |-> weighting_scheme_double(state)])
    /\ pc' = "WEIGHED"
    /\ UNCHANGED <<log, maxRefine, gen, evalDone, mcp>>

WeighSpec == WeighInit /\ [][Weigh]_vars

\* 0.3 + 0.25 + 0.2 + 0.25
WeightsSum == FAdd(FAdd(FAdd(FluencyWeight, NaturalnessWeight), RatioWeight), SocioWeight)

\* the final score of the record with another ratio score
WithRatio(st, csratio) ==
    weighting_scheme_double([st EXCEPT !.cs_ratio_result = [ratio_score |-> csratio]])

AxisScores(st) ==
    {st.fluency_result.fluency_score, st.naturalness_result.naturalness_score,
     st.cs_ratio_result.ratio_score, st.social_cultural_result.socio_cultural_score}

\* the final score is the weighted sum, the weights add up to 1.0 and the
\* final score lies in [0,10]
WeightedInRange ==
    /\ state.score = Weighted(state.fluency_result.fluency_score,
                              state.naturalness_result.naturalness_score,
                              state.cs_ratio_result.ratio_score,
                              state.social_cultural_result.socio_cultural_score)
    /\ WeightsSum = FInt(1)
    /\ FLeq(FInt(0), state.score)
    /\ FLeq(state.score, FInt(10))

\* the final scores of the record with its ratio score and with another one
\* are no more than limit apart
RatioShiftWithin(limit) ==
    \A csratio \in AxisDoubles :
        /\ FLeq(WithRatio(state, csratio), ExactSum(state.score, limit))
        /\ FLeq(state.score, ExactSum(WithRatio(state, csratio), limit))

\* C17 as stated: the final score is fluency * 0.30 + naturalness * 0.25 +
\* ratio * 0.20 + socio * 0.25, the weights add up to 1.0, and for axis
\* scores in [0,10] the final score lies in [0,10], is 10 only when all
\* four scores are 10, and changes by at most 2 when the ratio score alone
\* changes.
C17_AsStated ==
    pc = "WEIGHED"
    => /\ WeightedInRange
       /\ state.score = FInt(10) => AxisScores(state) = {FInt(10)}
       /\ RatioShiftWithin(FInt(2))

\* the doubles 10 - 2^-44 and 2 + 2^-46
NearTen == <<BitsOfInt[9] \o [i \in 1..44 |-> 1], 0 - 44>>
TwoAndRounding == <<BitsOfInt[2] \o Zeros(45) \o <<1>>, 0 - 46>>

\* C17: the final score is fluency * 0.30 + naturalness * 0.25 +
\* ratio * 0.20 + socio * 0.25, the weights add up to 1.0, and for axis
\* scores in [0,10] the final score lies in [0,10]; within rounding, it is
\* 10 only when all four scores are 10 (each is at least 10 - 2^-44) and it
\* changes by at most 2 (by at most 2 + 2^-46) when the ratio score alone
\* changes.
C17_WeightedWithinRounding ==
    pc = "WEIGHED"
    => /\ WeightedInRange
       /\ state.score = FInt(10) => \A axis \in AxisScores(state) : FLeq(NearTen, axis)
       /\ RatioShiftWithin(TwoAndRounding)

\* fluency 3, naturalness 0, ratio 10, socio-cultural 5, weighed: the final
\* score is more than 2 above the one with the ratio score 0
C17_Witness ==
    /\ pc = "WEIGHED"
    /\ state.fluency_result.fluency_score = FInt(3)
    /\ state.naturalness_result.naturalness_score = FInt(0)
    /\ state.cs_ratio_result.ratio_score = FInt(10)
    /\ state.social_cultural_result.socio_cultural_score = FInt(5)
    /\ ~FLeq(state.score, ExactSum(WithRatio(state, FInt(0)), FInt(2)))
    /\ FLeq(state.score, ExactSum(WithRatio(state, FInt(0)), TwoAndRounding))

\* a number of tenths written with one decimal, as one-character strings
DecimalDigit(d) == <<"0", "1", "2", "3", "4", "5", "6", "7", "8", "9">>[d + 1]

RECURSIVE Decimal(_)
Decimal(n) ==
    IF n < 10 THEN <<DecimalDigit(n)>> ELSE Append(Decimal(n \div 10), DecimalDigit(n % 10))

OneDecimal(tenths) == Decimal(tenths \div 10) \o <<".", DecimalDigit(tenths % 10)>>

\* the text of a formatted ratio; a language name is one element
RatioText(computed_ratio) ==
    OneDecimal(computed_ratio[2]) \o <<"%", " ", computed_ratio[3], " ", ":", " ">>
    \o OneDecimal(computed_ratio[4]) \o <<"%", " ", computed_ratio[5]>>

\* a percentage of the classified words, rounded to tenths
TenthsOf(count, total) == FormatTenths(Rat(count * 100, total))

Written(i) ==
    IF mcp.ran[i].outcome.kind = "mapping"
    THEN mcp.ran[i].outcome.outputs
    ELSE [k \in {mcp.ran[i].tool} |-> ErrorEntry(ErrorOf(mcp.ran[i].outcome))]

Writers(name) == {i \in 1..Len(mcp.ran) : name \in DOMAIN Written(i)}

LastWriter(name) == CHOOSE i \in Writers(name) : \A j \in Writers(name) : j <= i

\* C19: the tools run one after the other in registration order and their
\* outputs are merged in that order: the merged output holds the names any
\* invocation wrote, and under each name the entry of the last invocation
\* that wrote it, be it an output or an "ERROR: ..." entry.
C19_LaterToolWins ==
    pc = "TOOLING"
    => /\ Len(mcp.ran) = mcp.idx - 1
       /\ \A i \in 1..Len(mcp.ran) : mcp.ran[i].tool = ToolRegistry[i]
       /\ DOMAIN mcp.result = UNION {DOMAIN Written(i) : i \in 1..Len(mcp.ran)}
       /\ \A name \in DOMAIN mcp.result :
             mcp.result[name] = Written(LastWriter(name))[name]

\* the first tool returned an output under the second tool's name, the
\* second tool raised: the merged output holds the second tool's ERROR entry
C19_Witness ==
    /\ ToolsRan
    /\ Len(mcp.ran) = 2
    /\ mcp.ran[1].outcome.kind = "mapping"
    /\ "tool_b" \in DOMAIN mcp.ran[1].outcome.outputs
    /\ mcp.ran[2].outcome.kind = "raise"
    /\ Writers("tool_b") = {1, 2}
    /\ mcp.result["tool_b"] = ErrorEntry("boom")
    /\ mcp.result["tool_b"] # mcp.ran[1].outcome.outputs["tool_b"]

\* the alphabetic characters of a word that lie in a language's range
CharsOf(word, language) ==
    LET r == get_language_range(language)
    IN  Cardinality({i \in 1..Len(word) :
                        IsAlpha(word[i]) /\ r[1] <= word[i] /\ word[i] <= r[2]})

\* the class of a word by the majority of its alphabetic characters
MajorityVote(word, lang1, lang2) ==
    IF CharsOf(word, lang1) > CharsOf(word, lang2) THEN "lang1"
    ELSE IF CharsOf(word, lang2) > CharsOf(word, lang1) THEN "lang2"
    ELSE "unknown"

\* C20: for two languages of the table with different scripts, every word
\* of a measured batch is classified by the majority of its alphabetic
\* characters: the language with strictly more characters gets the word, a
\* tie or no character of either makes it unknown; the first character
\* alone does not decide.
C20_MajorityVote ==
    ( /\ MockMeasured
      /\ InLanguageTable(state.first_language)
      /\ InLanguageTable(state.second_language)
      /\ ~SameScriptGroup(state.first_language, state.second_language) )
    => LET words == AllWords(state.data_generation_result)
       IN  /\ \A i \in 1..Len(words) :
                 detect_word_language(words[i], state.first_language, state.second_language)
                    = MajorityVote(words[i], state.first_language, state.second_language)
           /\ \A tag \in {"lang1", "lang2", "unknown"} :
                 CountDetected(state.data_generation_result,
                               state.first_language, state.second_language, tag)
                    = Cardinality({i \in 1..Len(words) :
                         MajorityVote(words[i], state.first_language, state.second_language) = tag})

\* the record holds a refiner's answer
Refined(st) == "refiner_result" \in DOMAIN st

\* C21: after a REFINING step the next EVALUATING pass evaluates the batch
\* the refiner produced: the step leaves the refiner's instances in
\* data_generation_result, and the ratio axis of a refined record measures
\* the refiner's instances.
C21_RefinedBatchEvaluated ==
    [][ /\ (pc = "REFINING" /\ pc' = "EVALUATING")
           => state'.data_generation_result = state'.refiner_result.instances
        /\ (Refined(state) /\ "cs_ratio" \in evalDone' \ evalDone)
           => state'.cs_ratio_result.computed_ratio
                 = compute_cs_ratio(state.refiner_result.instances,
                                    state.first_language,
                                    state.second_language).computed_ratio
      ]_vars

\* the target of a record, for a target text that parses
TargetPercent(st) == FloatOf(RStripPercent(st.cs_ratio))

\* C22: the ratio score compares the target with the measured percentage of
\* the embedded (second) language, never with the matrix language's: a
\* batch whose embedded share is the target scores 10, and a batch whose
\* matrix share is the target (its embedded share is 100 - target, the
\* target not 50) does not.
C22_ScoredOnEmbeddedShare ==
    (MockMeasured /\ TargetParses(state))
    => LET measured == Measured(state)
           score == state.cs_ratio_result.ratio_score
       IN  /\ score = calculate_ratio_score(measured.lang2_percent, state.cs_ratio, MAX_POINTS)
           /\ measured.lang2_percent = TargetPercent(state) => score = RInt(10)
           /\ ( /\ measured.lang2_percent = RSub(RInt(100), TargetPercent(state))
                /\ TargetPercent(state) # RInt(50) )
              => score # RInt(10)

\* every classified word is of the matrix language and the target is 100%:
\* the matrix share is the target, the embedded share is 0, the score is 0
C22_Witness ==
    /\ pc = "MOCK_DONE"
    /\ TargetParses(state)
    /\ TargetPercent(state) = RInt(100)
    /\ TotalClassified(state) > 0
    /\ Measured(state).lang1_percent = RInt(100)
    /\ Measured(state).lang2_percent = RInt(0)
    /\ state.cs_ratio_result.ratio_score = RInt(0)

\* the field an evaluation stage returns, and the score's name in it
AxisField(axis) ==
    [fluency |-> "fluency_result", naturalness |-> "naturalness_result",
     cs_ratio |-> "cs_ratio_result", social_cultural |-> "social_cultural_result"][axis]

AxisScoreField(axis) ==
    [fluency |-> "fluency_score", naturalness |-> "naturalness_score",
     cs_ratio |-> "ratio_score", social_cultural |-> "socio_cultural_score"][axis]

\* what the judge of an axis may answer
AxisOutcomes(E, axis) == IF axis = "cs_ratio" THEN E.ratio_judge ELSE E.judges

\* what the stage of an axis returns on the record st
AxisReturn(st, axis, outcome) ==
    IF axis = "cs_ratio"
    THEN [cs_ratio_result |-> CSRatioResponse(st, outcome)]
    ELSE [k \in {AxisField(axis)} |-> JudgeResponse(outcome, AxisScoreField(axis))]

\* the record after the stage of an axis, merged by the driver
AfterStage(st, axis, outcome) == Update(st, AxisReturn(st, axis, outcome))

\* C23: the four evaluation stages commute: a stage returns its own axis
\* result only and leaves the rest of the record as it was given (the
\* batch and the other axis results among it), and the stage that runs and
\* any stage that has not run yet give the same merged record in either
\* order.
C23_EvaluationsCommute ==
    [][ pc = "EVALUATING"
        => \A a \in evalDone' \ evalDone :
              /\ DOMAIN state' = DOMAIN state \cup {AxisField(a)}
              /\ \A k \in DOMAIN state \ {AxisField(a)} : state'[k] = state[k]
              /\ \E oa \in AxisOutcomes(RatioEnv, a) :
                    /\ state' = AfterStage(state, a, oa)
                    /\ \A b \in Axes \ evalDone' : \A ob \in AxisOutcomes(RatioEnv, b) :
                          AfterStage(state', b, ob)
                             = AfterStage(AfterStage(state, b, ob), a, oa)
      ]_vars

\* the ratio and the socio-cultural stages have run before the other two,
\* and the record holds their two results and the batch
C23_Witness ==
    /\ pc = "EVALUATING"
    /\ evalDone = {"cs_ratio", "social_cultural"}
    /\ ~Refined(state)
    /\ "cs_ratio_result" \in DOMAIN state
    /\ "social_cultural_result" \in DOMAIN state
    /\ "fluency_result" \notin DOMAIN state
    /\ "naturalness_result" \notin DOMAIN state
    /\ state.data_generation_result = BatchMixed

=============================================================================
